---- MODULE Spec2Model ----
(***************************************************************************)
(* The vote-counting engine of vote_it: the VoteEngine Durable Object      *)
(* (src/src/durable-objects/VoteEngine.ts), the D1 tables it flushes to    *)
(* (src/schema.sql) and the API-layer bridge that seeds it                 *)
(* (src/src/handlers/votes.ts).                                            *)
(*                                                                         *)
(* One poll, "p", and its actor are modelled.  An actor event runs         *)
(* atomically up to its next await on D1: awaits on the actor's own        *)
(* storage (put, setAlarm) keep the input gate closed, awaits on D1 do     *)
(* not, so other events of the same actor interleave there.                *)
(***************************************************************************)
EXTENDS Integers, FiniteSets, Sequences, TLC

VARIABLES
    voteState,   \* VoteEngine.voteState (in memory)
    syncAlarm,   \* VoteEngine.syncAlarm (in memory)
    stored,      \* state.storage key 'voteState'
    alarmSets,   \* state.storage alarm: 0 when none is pending, else the number of
                 \* setAlarm calls since an alarm last fired (each moves the alarm)
    db,          \* D1: polls.total_votes, options.vote_count, votes rows of poll "p"
    inflight,    \* handleVote calls suspended on the audit INSERT
    flush,       \* the syncToD1 call in flight, if any
    bridge,      \* the API layer's handleVote call in progress, if any
    last         \* the event that produced this state: operation, request, response

vars == <<voteState, syncAlarm, stored, alarmSets, db, inflight, flush, bridge, last>>

----------------------------------------------------------------------------
(* Bounds *)

\* largest vote_count an init snapshot carries
MaxSeed == 1
\* handleVote calls that may be suspended on the audit INSERT at once
MaxInflight == 2

----------------------------------------------------------------------------
(* Values *)

PollId == "p"
Options == {"A", "B"}
\* the voters of the model, <<CF-Connecting-IP, fingerprint>>; an IPv6-like
\* address holds ':', and so may a client-supplied fingerprint
Voters == {<<"a", "c">>, <<"a", "b:c">>, <<"a:b", "c">>}

OptionText(o) == "text-" \o o

\* handleVote: const voterKey = `${body.ipAddress}:${body.fingerprint}`
VoterKey(ipAddress, fingerprint) == ipAddress \o ":" \o fingerprint

VoterKeys == {VoterKey(v[1], v[2]) : v \in Voters}

RECURSIVE SumCounts(_, _)
SumCounts(opts, ids) ==
    IF ids = {} THEN 0
    ELSE LET o == CHOOSE x \in ids : TRUE
         IN opts[o].voteCount + SumCounts(opts, ids \ {o})

\* sum of voteCount over an option map
OptionSum(opts) == SumCounts(opts, DOMAIN opts)

NoOptions == [o \in {} |-> [text |-> "", voteCount |-> 0]]

\* constructor: the voteState of a fresh instance
EmptyVoteState ==
    [pollId |-> "", options |-> NoOptions, totalVotes |-> 0,
     voters |-> {}, initialized |-> FALSE, dirty |-> FALSE]

\* storage.get('voteState') of an actor that never saved
NoStored == [present |-> FALSE, pollId |-> "", options |-> NoOptions,
             totalVotes |-> 0, voters |-> {}, initialized |-> FALSE]

----------------------------------------------------------------------------
(* Requests and responses (VoteRequest, VoteResponse) *)

NoBody == [pollId |-> "", optionId |-> "", ipAddress |-> "", fingerprint |-> "",
           options |-> NoOptions, totalVotes |-> 0, existingVoters |-> {}]

NoData == [optionVoteCount |-> -1, totalVotes |-> -1,
           options |-> NoOptions, alreadyVoted |-> FALSE]

Success(data) == [success |-> TRUE, error |-> "", data |-> data]
Failure(error) == [success |-> FALSE, error |-> error, data |-> NoData]

NoResponse == [success |-> FALSE, error |-> "none", data |-> NoData]

ErrMissingFields == "Missing required fields"
ErrNotInitialized == "Poll ID not set - DO not initialized"
ErrAlreadyVoted == "You have already voted on this poll"
ErrOptionNotFound == "Option not found"
ErrPollIdRequired == "pollId is required for initialization"
ErrGetStateNotInitialized == "Not initialized"
ErrStorage == "storage put failed"

\* an init snapshot: option A holds a votes, B none, the total agrees with the
\* counts (d = 0) or is one ahead of them (d = 1), and the votes seeded come
\* with one existing voter
Snapshot(pollId, a, d) ==
    [NoBody EXCEPT !.pollId = pollId,
                   !.options = [o \in Options |->
                                  [text |-> OptionText(o),
                                   voteCount |-> IF o = "A" THEN a ELSE 0]],
                   !.totalVotes = a + d,
                   !.existingVoters = IF a > 0 THEN {VoterKey("a", "c")} ELSE {}]

\* init requests: every snapshot with a pollId, and one without
InitBodies ==
    {Snapshot(PollId, a, d) : a \in 0..MaxSeed, d \in {0, 1}}
        \cup {Snapshot("", MaxSeed, 0)}

VoteBody(pollId, optionId, voter) ==
    [NoBody EXCEPT !.pollId = pollId, !.optionId = optionId,
                   !.ipAddress = voter[1], !.fingerprint = voter[2]]

\* vote requests: every voter on every option id as the bridge sends them (no
\* pollId), one that carries a pollId, and one with a field missing
VoteBodies ==
    {VoteBody("", o, v) : o \in Options \cup {"Z"}, v \in Voters}
        \cup {VoteBody(PollId, "A", <<"a", "c">>), VoteBody("", "A", <<"", "c">>)}

Event(op, body, resp) == [op |-> op, body |-> body, resp |-> resp]

\* no handleVote call of the API layer is in progress
NoBridge == [pc |-> "idle", vote |-> NoBody, init |-> NoBody, result |-> NoResponse]

\* no event is being answered
Idle == Event("idle", NoBody, NoResponse)

----------------------------------------------------------------------------
(* Private storage *)

\* mutant of Persisted: the put leaves the voters out
Persisted_NoVoters(vs) ==
    [present |-> TRUE, pollId |-> vs.pollId, options |-> vs.options,
     totalVotes |-> vs.totalVotes, voters |-> {},
     initialized |-> vs.initialized]

\* mutant of Persisted: the put leaves one voter out
Persisted_DropsOneVoter(vs) ==
    [present |-> TRUE, pollId |-> vs.pollId, options |-> vs.options,
     totalVotes |-> vs.totalVotes,
     voters |-> IF vs.voters = {} THEN {}
                ELSE vs.voters \ {CHOOSE k \in vs.voters : TRUE},
     initialized |-> vs.initialized]

\* saveToStorage: the value put under 'voteState'
Persisted(vs) ==
    [present |-> TRUE, pollId |-> vs.pollId, options |-> vs.options,
     totalVotes |-> vs.totalVotes, voters |-> vs.voters,
     initialized |-> vs.initialized]

\* loadFromStorage: the voteState a new instance starts with
Loaded(st) ==
    IF st.present
    THEN [pollId |-> st.pollId, options |-> st.options,
          totalVotes |-> st.totalVotes, voters |-> st.voters,
          initialized |-> st.initialized, dirty |-> FALSE]
    ELSE EmptyVoteState

----------------------------------------------------------------------------
(* handleInit *)

\* mutant of AdoptSnapshot: the initialized flag is not set
AdoptSnapshot_NoFlag(vs, body) ==
    [vs EXCEPT !.pollId = body.pollId,
               !.totalVotes = body.totalVotes,
               !.options = [o \in (DOMAIN vs.options) \cup (DOMAIN body.options) |->
                              IF o \in DOMAIN body.options
                              THEN body.options[o] ELSE vs.options[o]],
               !.voters = vs.voters \cup body.existingVoters]

\* lines 208-225: adopt the snapshot of the request
AdoptSnapshot(vs, body) ==
    [vs EXCEPT !.pollId = body.pollId,
               !.totalVotes = body.totalVotes,
               !.initialized = TRUE,
               !.options = [o \in (DOMAIN vs.options) \cup (DOMAIN body.options) |->
                              IF o \in DOMAIN body.options
                              THEN body.options[o] ELSE vs.options[o]],
               !.voters = vs.voters \cup body.existingVoters]

\* mutant of InitOutcome: the check of the initialized flag is missing
InitOutcome_NoGuard(vs, body) ==
    IF body.pollId = "" THEN "reject" ELSE "adopt"

\* "adopt" | "ignore" (already initialized) | "reject" (no pollId)
InitOutcome(vs, body) ==
    IF vs.initialized THEN "ignore"
    ELSE IF body.pollId = "" THEN "reject"
    ELSE "adopt"

DoInit(body, putOk) ==
    LET outcome == InitOutcome(voteState, body)
        adopted == AdoptSnapshot(voteState, body)
    IN /\ last = Idle
       /\ outcome # "adopt" => putOk      \* nothing is put: one step, not two
       /\ CASE outcome = "ignore" ->
                 /\ last' = Event("init", body,
                                  Success([NoData EXCEPT !.totalVotes = voteState.totalVotes]))
                 /\ UNCHANGED <<voteState, stored>>
            [] outcome = "reject" ->
                 /\ last' = Event("init", body, Failure(ErrPollIdRequired))
                 /\ UNCHANGED <<voteState, stored>>
            [] outcome = "adopt" /\ putOk ->
                 /\ voteState' = [adopted EXCEPT !.dirty = FALSE]
                 /\ stored' = Persisted(adopted)
                 /\ last' = Event("init", body,
                                  Success([NoData EXCEPT !.totalVotes = adopted.totalVotes]))
            [] outcome = "adopt" /\ ~putOk ->
                 \* storage.put throws: fetch's catch answers 500
                 /\ voteState' = adopted
                 /\ stored' = stored
                 /\ last' = Event("init", body, Failure(ErrStorage))
       /\ UNCHANGED <<syncAlarm, alarmSets, db, inflight, flush>>

\* an init request from any caller but the bridge of this model
HandleInit(body, putOk) == DoInit(body, putOk) /\ UNCHANGED bridge

----------------------------------------------------------------------------
(* handleVote *)

\* lines 240-243: take the pollId of the request when the state has none
WithPollId(vs, body) ==
    IF vs.pollId = "" /\ body.pollId # "" THEN [vs EXCEPT !.pollId = body.pollId] ELSE vs

\* mutant of VoteOutcome: the option is looked up before the duplicate check
VoteOutcome_OptionFirst(vs, body) ==
    IF body.optionId = "" \/ body.ipAddress = "" \/ body.fingerprint = ""
    THEN "missing"
    ELSE IF WithPollId(vs, body).pollId = "" THEN "notInitialized"
    ELSE IF body.optionId \notin DOMAIN vs.options THEN "optionNotFound"
    ELSE IF VoterKey(body.ipAddress, body.fingerprint) \in vs.voters THEN "alreadyVoted"
    ELSE "accept"

\* mutant of VoteOutcome: the audit rows of D1 are consulted for the duplicate
VoteOutcome_AuditLog(vs, body) ==
    IF body.optionId = "" \/ body.ipAddress = "" \/ body.fingerprint = ""
    THEN "missing"
    ELSE IF WithPollId(vs, body).pollId = "" THEN "notInitialized"
    ELSE IF \/ VoterKey(body.ipAddress, body.fingerprint) \in vs.voters
            \/ <<body.ipAddress, body.fingerprint>> \in db.votes THEN "alreadyVoted"
    ELSE IF body.optionId \notin DOMAIN vs.options THEN "optionNotFound"
    ELSE "accept"

\* mutant of VoteOutcome: an option that is not in the map is reported as a
\* missing field
VoteOutcome_OptionMissing(vs, body) ==
    IF body.optionId = "" \/ body.ipAddress = "" \/ body.fingerprint = ""
    THEN "missing"
    ELSE IF WithPollId(vs, body).pollId = "" THEN "notInitialized"
    ELSE IF VoterKey(body.ipAddress, body.fingerprint) \in vs.voters THEN "alreadyVoted"
    ELSE IF body.optionId \notin DOMAIN vs.options THEN "missing"
    ELSE "accept"

\* the checks of lines 236-263, in their order
VoteOutcome(vs, body) ==
    IF body.optionId = "" \/ body.ipAddress = "" \/ body.fingerprint = ""
    THEN "missing"
    ELSE IF WithPollId(vs, body).pollId = "" THEN "notInitialized"
    ELSE IF VoterKey(body.ipAddress, body.fingerprint) \in vs.voters THEN "alreadyVoted"
    ELSE IF body.optionId \notin DOMAIN vs.options THEN "optionNotFound"
    ELSE "accept"

\* mutant of RecordVote: the total is not incremented
RecordVote_NoTotal(vs, optionId, voterKey) ==
    [vs EXCEPT !.options[optionId].voteCount = @ + 1,
               !.voters = @ \cup {voterKey},
               !.dirty = TRUE]

\* mutant of RecordVote: the voter key is not added to the guard set
RecordVote_NoVoter(vs, optionId, voterKey) ==
    [vs EXCEPT !.options[optionId].voteCount = @ + 1,
               !.totalVotes = @ + 1,
               !.dirty = TRUE]

\* mutant of RecordVote: every option's count is incremented
RecordVote_AllOptions(vs, optionId, voterKey) ==
    [vs EXCEPT !.options = [o \in DOMAIN vs.options |->
                              [vs.options[o] EXCEPT !.voteCount = @ + 1]],
               !.totalVotes = @ + 1,
               !.voters = @ \cup {voterKey},
               !.dirty = TRUE]

\* lines 266-269: record the vote
RecordVote(vs, optionId, voterKey) ==
    [vs EXCEPT !.options[optionId].voteCount = @ + 1,
               !.totalVotes = @ + 1,
               !.voters = @ \cup {voterKey},
               !.dirty = TRUE]

\* scheduleD1Sync: setAlarm is called unless the flag says an alarm is pending
ScheduleSets(flag) == ~flag

\* handleVote up to its first await on D1 (the audit INSERT), or to its return
DoVote(body, putOk) ==
    LET outcome == VoteOutcome(voteState, body)
        vs == WithPollId(voteState, body)
        key == VoterKey(body.ipAddress, body.fingerprint)
        voted == RecordVote(vs, body.optionId, key)
    IN /\ last = Idle
       /\ outcome # "accept" => putOk     \* nothing is put: one step, not two
       /\ CASE outcome = "missing" ->
              /\ last' = Event("vote", body, Failure(ErrMissingFields))
              /\ UNCHANGED <<voteState, syncAlarm, stored, alarmSets, db, inflight, flush>>
         [] outcome = "notInitialized" ->
              /\ last' = Event("vote", body, Failure(ErrNotInitialized))
              /\ UNCHANGED <<voteState, syncAlarm, stored, alarmSets, db, inflight, flush>>
         [] outcome = "alreadyVoted" ->
              /\ voteState' = vs
              /\ last' = Event("vote", body,
                               [success |-> FALSE, error |-> ErrAlreadyVoted,
                                data |-> [NoData EXCEPT !.alreadyVoted = TRUE]])
              /\ UNCHANGED <<syncAlarm, stored, alarmSets, db, inflight, flush>>
         [] outcome = "optionNotFound" ->
              /\ voteState' = vs
              /\ last' = Event("vote", body, Failure(ErrOptionNotFound))
              /\ UNCHANGED <<syncAlarm, stored, alarmSets, db, inflight, flush>>
         [] outcome = "accept" /\ ~putOk ->
              \* storage.put throws after the mutation: fetch's catch answers 500
              /\ voteState' = voted
              /\ last' = Event("vote", body, Failure(ErrStorage))
              /\ UNCHANGED <<syncAlarm, stored, alarmSets, db, inflight, flush>>
         [] outcome = "accept" /\ putOk ->
              /\ Cardinality(inflight) < MaxInflight
              /\ voteState' = [voted EXCEPT !.dirty = FALSE]
              /\ stored' = Persisted(voted)
              /\ alarmSets' = IF ScheduleSets(syncAlarm) THEN alarmSets + 1 ELSE alarmSets
              /\ syncAlarm' = TRUE
              /\ inflight' = inflight \cup {body}
              /\ last' = Event("voteAwait", body, NoResponse)
              /\ UNCHANGED <<db, flush>>

\* a vote request from any caller but the bridge of this model
HandleVote(body, putOk) == DoVote(body, putOk) /\ UNCHANGED bridge

\* mutant of VoteResponse: the vote answers the failure of the audit INSERT
VoteResponse_AuditFails(vs, body) == Failure("D1 insert failed")

\* lines 278-297: the audit INSERT resolves or throws (a failure of D1, or the
\* UNIQUE(poll_id, ip_address, fingerprint) constraint); either way the vote answers
\* success with the counts the state holds now
VoteResponse(vs, body) ==
    Success([NoData EXCEPT !.optionVoteCount = vs.options[body.optionId].voteCount,
                           !.totalVotes = vs.totalVotes])

AuditInsert(body, dbOk) ==
    /\ last = Idle
    /\ body \in inflight
    /\ inflight' = inflight \ {body}
    /\ db' = IF dbOk /\ <<body.ipAddress, body.fingerprint>> \notin db.votes
             THEN [db EXCEPT !.votes = @ \cup {<<body.ipAddress, body.fingerprint>>}]
             ELSE db
    /\ last' = Event("voteReturn", body, VoteResponse(voteState, body))
    /\ bridge' = IF bridge.pc = "await" /\ bridge.vote = body
                 THEN [bridge EXCEPT !.pc = "reply", !.result = VoteResponse(voteState, body)]
                 ELSE bridge
    /\ UNCHANGED <<voteState, syncAlarm, stored, alarmSets, flush>>

----------------------------------------------------------------------------
(* handleGetState *)

\* mutant of StateResponse: the answer carries the total and no option
StateResponse_NoOptions(vs) ==
    IF ~vs.initialized THEN Failure(ErrGetStateNotInitialized)
    ELSE Success([NoData EXCEPT !.totalVotes = vs.totalVotes])

\* the answer of handleGetState: every option with its count, and the total
StateResponse(vs) ==
    IF ~vs.initialized THEN Failure(ErrGetStateNotInitialized)
    ELSE Success([NoData EXCEPT !.totalVotes = vs.totalVotes,
                                !.options = vs.options])

\* mutant of HandleGetState: the read schedules a flush
HandleGetState_SetsAlarm ==
    /\ last = Idle
    /\ last' = Event("getState", NoBody, StateResponse(voteState))
    /\ alarmSets' = alarmSets + 1
    /\ syncAlarm' = TRUE
    /\ UNCHANGED <<voteState, stored, db, inflight, flush, bridge>>

HandleGetState ==
    /\ last = Idle
    /\ last' = Event("getState", NoBody, StateResponse(voteState))
    /\ UNCHANGED <<voteState, syncAlarm, stored, alarmSets, db, inflight, flush, bridge>>

----------------------------------------------------------------------------
(* alarm, the 'sync' action and syncToD1 *)

NoFlush == [pc |-> "idle", by |-> "", total |-> 0, options |-> NoOptions]

\* mutant of SyncSkips: syncToD1 runs whatever the state
SyncSkips_Never(vs) == FALSE

\* syncToD1 line 129: nothing to do for an actor without state
SyncSkips(vs) == ~vs.initialized \/ vs.pollId = ""

\* syncToD1 up to its first await: the UPDATE of polls.total_votes is bound to
\* the total the state holds now
SyncBegin(by) ==
    IF SyncSkips(voteState)
    THEN /\ flush' = NoFlush
         /\ last' = Event(by \o "Skipped", NoBody,
                          IF by = "sync" THEN Success(NoData) ELSE NoResponse)
    ELSE /\ flush' = [pc |-> "total", by |-> by,
                      total |-> voteState.totalVotes, options |-> NoOptions]
         /\ last' = Event(by \o "Begin", NoBody, NoResponse)

\* mutant of Alarm: the handler empties the guard set
Alarm_DropsVoters ==
    /\ last = Idle
    /\ alarmSets > 0
    /\ flush.pc = "idle"
    /\ alarmSets' = 0
    /\ syncAlarm' = FALSE
    /\ SyncBegin("alarm")
    /\ voteState' = [voteState EXCEPT !.voters = {}]
    /\ UNCHANGED <<stored, db, inflight, bridge>>

\* mutant of Alarm: the handler does not clear the flag
Alarm_KeepsFlag ==
    /\ last = Idle
    /\ alarmSets > 0
    /\ flush.pc = "idle"
    /\ alarmSets' = 0
    /\ SyncBegin("alarm")
    /\ UNCHANGED <<voteState, syncAlarm, stored, db, inflight, bridge>>

\* alarm(): the pending alarm fires; the flag is cleared, then syncToD1 runs
Alarm ==
    /\ last = Idle
    /\ alarmSets > 0
    /\ flush.pc = "idle"
    /\ alarmSets' = 0
    /\ syncAlarm' = FALSE
    /\ SyncBegin("alarm")
    /\ UNCHANGED <<voteState, stored, db, inflight, bridge>>

\* fetch, case 'sync'
Sync ==
    /\ last = Idle
    /\ flush.pc = "idle"
    /\ SyncBegin("sync")
    /\ UNCHANGED <<voteState, syncAlarm, stored, alarmSets, db, inflight, bridge>>

\* the end of syncToD1, "Done" or "Failed": the catch of line 153 only logs, and
\* the 'sync' action answers success either way
FlushEnd(by, how) ==
    /\ flush' = NoFlush
    /\ last' = Event(by \o how, NoBody,
                     IF by = "sync" THEN Success(NoData) ELSE NoResponse)

\* mutant of BatchApplied: the batch is built and never run
BatchApplied_Nothing(rows, opts) == rows

\* DB.batch of 'UPDATE options SET vote_count = ? WHERE id = ?', one per option
\* of the actor, applied to the rows of D1
BatchApplied(rows, opts) ==
    [o \in DOMAIN rows |-> IF o \in DOMAIN opts THEN opts[o].voteCount ELSE rows[o]]

\* the UPDATE of polls.total_votes resolves, and the batch of option UPDATEs is
\* bound to the counts the state holds now; or the UPDATE throws
FlushTotal(dbOk) ==
    /\ last = Idle
    /\ flush.pc = "total"
    /\ IF dbOk
       THEN /\ db' = [db EXCEPT !.total = flush.total]
            /\ flush' = [flush EXCEPT !.pc = "batch", !.options = voteState.options]
            /\ last' = Event(flush.by \o "Total", NoBody, NoResponse)
       ELSE /\ db' = db
            /\ FlushEnd(flush.by, "Failed")
    /\ UNCHANGED <<voteState, syncAlarm, stored, alarmSets, inflight, bridge>>

\* DB.batch of the option UPDATEs resolves (all rows) or throws (none)
FlushBatch(dbOk) ==
    /\ last = Idle
    /\ flush.pc = "batch"
    /\ db' = IF dbOk
             THEN [db EXCEPT !.options = BatchApplied(db.options, flush.options)]
             ELSE db
    /\ FlushEnd(flush.by, IF dbOk THEN "Done" ELSE "Failed")
    /\ UNCHANGED <<voteState, syncAlarm, stored, alarmSets, inflight, bridge>>

----------------------------------------------------------------------------
(* Hibernation: the instance is evicted and constructed again *)

Reload ==
    /\ last = Idle
    /\ inflight = {}
    /\ flush.pc = "idle"
    /\ voteState' = Loaded(stored)
    /\ syncAlarm' = FALSE
    /\ last' = Event("reload", NoBody, NoResponse)
    /\ UNCHANGED <<stored, alarmSets, db, inflight, flush, bridge>>

----------------------------------------------------------------------------
(* The system *)

\* createPoll: the poll's rows with zero counts, no votes
InitialDb == [total |-> 0, options |-> [o \in Options |-> 0], votes |-> {}]

Init ==
    /\ voteState = EmptyVoteState
    /\ syncAlarm = FALSE
    /\ stored = NoStored
    /\ alarmSets = 0
    /\ bridge = NoBridge
    /\ db = InitialDb
    /\ inflight = {}
    /\ flush = NoFlush
    /\ last = Idle

\* the event's answer has left the actor (fetch, lines 184-193); the next event
\* is delivered after it.  Every event runs to its next await on D1 or to its end.
Settle ==
    /\ last # Idle
    /\ last' = Idle
    /\ UNCHANGED <<voteState, syncAlarm, stored, alarmSets, db, inflight, flush, bridge>>

\* the events of the actor, its init requests drawn from initBodies: the init,
\* vote and getState requests, the alarm and its flush, and reloads
ActorNext(initBodies) ==
    \/ \E body \in initBodies, putOk \in BOOLEAN : HandleInit(body, putOk)
    \/ \E body \in VoteBodies, putOk \in BOOLEAN : HandleVote(body, putOk)
    \/ \E body \in VoteBodies, dbOk \in BOOLEAN : AuditInsert(body, dbOk)
    \/ HandleGetState
    \/ Alarm
    \/ \E dbOk \in BOOLEAN : FlushTotal(dbOk)
    \/ \E dbOk \in BOOLEAN : FlushBatch(dbOk)
    \/ Reload
    \/ Settle

\* the actor under the requests that the callers of the repository send
\* (no caller sends 'sync')
Next == ActorNext(InitBodies)

Spec == Init /\ [][Next]_vars

\* the same with the 'sync' request of the wire contract
SyncNext == ActorNext(InitBodies) \/ Sync

SyncSpec == Init /\ [][SyncNext]_vars

\* the actor seeded with all counts 0, total 0 and no existing voter
ZeroNext == ActorNext({Snapshot(PollId, 0, 0), Snapshot("", 0, 0)})

ZeroSpec == Init /\ [][ZeroNext]_vars

----------------------------------------------------------------------------
(* The bridge: handleVote and initializeVoteEngine of the API layer           *)
(* (src/src/handlers/votes.ts).  Each await on D1 or on the actor is a step.  *)

\* handleVote, lines 73-124: the request is validated, the poll and the option
\* are found in D1; the vote request for the actor is the one of lines 130-140
BridgeStart(optionId, voter) ==
    /\ last = Idle
    /\ bridge.pc = "idle"
    /\ IF optionId \in DOMAIN db.options
       THEN /\ bridge' = [NoBridge EXCEPT !.pc = "readOptions",
                                          !.vote = VoteBody("", optionId, voter)]
            /\ last' = Event("bridgeStart", VoteBody("", optionId, voter), NoResponse)
       ELSE /\ bridge' = NoBridge
            /\ last' = Event("http404", VoteBody("", optionId, voter),
                             Failure(ErrOptionNotFound))
    /\ UNCHANGED <<voteState, syncAlarm, stored, alarmSets, db, inflight, flush>>

\* initializeVoteEngine, line 41: getOptionsByPollId
BridgeReadOptions ==
    /\ last = Idle
    /\ bridge.pc = "readOptions"
    /\ bridge' = [bridge EXCEPT
                    !.pc = "readPoll",
                    !.init.options = [o \in DOMAIN db.options |->
                                        [text |-> OptionText(o),
                                         voteCount |-> db.options[o]]]]
    /\ last' = Event("bridgeRead", bridge.vote, NoResponse)
    /\ UNCHANGED <<voteState, syncAlarm, stored, alarmSets, db, inflight, flush>>

\* initializeVoteEngine, line 42: getPollById
BridgeReadPoll ==
    /\ last = Idle
    /\ bridge.pc = "readPoll"
    /\ bridge' = [bridge EXCEPT !.pc = "readVoters", !.init.totalVotes = db.total]
    /\ last' = Event("bridgeRead", bridge.vote, NoResponse)
    /\ UNCHANGED <<voteState, syncAlarm, stored, alarmSets, db, inflight, flush>>

\* initializeVoteEngine, lines 45-53: the voter keys of the audit rows
BridgeReadVoters ==
    /\ last = Idle
    /\ bridge.pc = "readVoters"
    /\ bridge' = [bridge EXCEPT
                    !.pc = "init",
                    !.init.existingVoters = {VoterKey(r[1], r[2]) : r \in db.votes}]
    /\ last' = Event("bridgeRead", bridge.vote, NoResponse)
    /\ UNCHANGED <<voteState, syncAlarm, stored, alarmSets, db, inflight, flush>>

\* initializeVoteEngine, lines 56-69: the init request carries action, options,
\* totalVotes and existingVoters, and no pollId; its answer is not read
BridgeInit(putOk) ==
    /\ bridge.pc = "init"
    /\ DoInit(bridge.init, putOk)
    /\ bridge' = [bridge EXCEPT !.pc = "vote"]

\* handleVote, lines 130-142: the vote request; the actor answers at once or
\* after its audit INSERT
BridgeVote(putOk) ==
    /\ bridge.pc = "vote"
    /\ DoVote(bridge.vote, putOk)
    /\ bridge' = IF last'.op = "vote"
                 THEN [bridge EXCEPT !.pc = "reply", !.result = last'.resp]
                 ELSE [bridge EXCEPT !.pc = "await"]

\* handleVote, lines 144-162: 201, 409 for alreadyVoted, 500 otherwise
BridgeStatus(result) ==
    IF result.success THEN "http201"
    ELSE IF result.data.alreadyVoted THEN "http409"
    ELSE "http500"

BridgeReply ==
    /\ last = Idle
    /\ bridge.pc = "reply"
    /\ bridge' = NoBridge
    /\ last' = Event(BridgeStatus(bridge.result), bridge.vote, bridge.result)
    /\ UNCHANGED <<voteState, syncAlarm, stored, alarmSets, db, inflight, flush>>

BridgeNext ==
    \/ \E o \in Options \cup {"Z"}, v \in Voters : BridgeStart(o, v)
    \/ BridgeReadOptions
    \/ BridgeReadPoll
    \/ BridgeReadVoters
    \/ \E putOk \in BOOLEAN : BridgeInit(putOk)
    \/ \E putOk \in BOOLEAN : BridgeVote(putOk)
    \/ BridgeReply
    \/ HandleGetState
    \/ Reload
    \/ Settle

\* the actor under the requests of the bridge alone
BridgeSpec == Init /\ [][BridgeNext]_vars

----------------------------------------------------------------------------
(* Loss of the actor's private storage, and the reseeding that follows *)

\* the private storage of the actor is lost with its alarm; the next instance
\* finds storage.get('voteState') undefined and keeps the constructor's state
LoseStorage ==
    /\ last = Idle
    /\ inflight = {}
    /\ flush.pc = "idle"
    /\ bridge.pc = "idle"
    /\ stored.present
    /\ stored' = NoStored
    /\ voteState' = Loaded(NoStored)
    /\ syncAlarm' = FALSE
    /\ alarmSets' = 0
    /\ last' = Event("storageLost", NoBody, NoResponse)
    /\ UNCHANGED <<db, inflight, flush, bridge>>

\* the actor seeded with zero counts by a caller that sends a pollId, its votes
\* and flushes without failures of storage or D1 other than the audit INSERT's,
\* the loss of its storage, and votes through the bridge
ReseedNext ==
    \/ HandleInit(Snapshot(PollId, 0, 0), TRUE)
    \/ \E v \in Voters : HandleVote(VoteBody("", "A", v), TRUE)
    \/ \E body \in VoteBodies, dbOk \in BOOLEAN : AuditInsert(body, dbOk)
    \/ Alarm
    \/ FlushTotal(TRUE)
    \/ FlushBatch(TRUE)
    \/ Settle
    \/ LoseStorage
    \/ BridgeStart("A", <<"a", "c">>)
    \/ BridgeReadOptions
    \/ BridgeReadPoll
    \/ BridgeReadVoters
    \/ \E putOk \in BOOLEAN : BridgeInit(putOk)
    \/ \E putOk \in BOOLEAN : BridgeVote(putOk)
    \/ BridgeReply

ReseedSpec == Init /\ [][ReseedNext]_vars

----------------------------------------------------------------------------
(* A vote whose caller is followed from the request to the answer *)

\* handleVote for the caller this model follows: the vote is recorded as any
\* other, and the caller's record keeps what lines 266-267 left in the count of
\* the option and in the total, the updated counts of this vote, until the
\* answer of lines 291-297 comes
ObservedVote(body) ==
    /\ bridge.pc = "idle"
    /\ VoteOutcome(voteState, body) = "accept"
    /\ DoVote(body, TRUE)
    /\ bridge' = [NoBridge EXCEPT !.pc = "await", !.vote = body,
                                  !.result = VoteResponse(voteState', body)]

\* the actor seeded with zero counts, its votes racing on the audit INSERT, and
\* one caller followed at a time
RaceNext ==
    \/ HandleInit(Snapshot(PollId, 0, 0), TRUE)
    \/ \E body \in VoteBodies, putOk \in BOOLEAN : HandleVote(body, putOk)
    \/ \E body \in VoteBodies : ObservedVote(body)
    \/ \E body \in VoteBodies, dbOk \in BOOLEAN : AuditInsert(body, dbOk)
    \/ BridgeReply
    \/ Settle

RaceSpec == Init /\ [][RaceNext]_vars

----------------------------------------------------------------------------
(* The read path: handleGetPollById and getLiveVoteCounts of the API layer    *)
(* (src/unnamed/part_005).  Each await on D1 or on the actor is a step.       *)

\* the rows of D1 as getOptionsByPollId returns them
OptionRows(rows) ==
    [o \in DOMAIN rows |-> [text |-> OptionText(o), voteCount |-> rows[o]]]

\* getPollWithOptions, first read: getPollById
ReadPoll ==
    /\ last = Idle
    /\ bridge.pc = "idle"
    /\ bridge' = [NoBridge EXCEPT !.pc = "baseOptions", !.init.totalVotes = db.total]
    /\ last' = Event("readPoll", NoBody, NoResponse)
    /\ UNCHANGED <<voteState, syncAlarm, stored, alarmSets, db, inflight, flush>>

\* getPollWithOptions, second read: getOptionsByPollId
ReadOptions ==
    /\ last = Idle
    /\ bridge.pc = "baseOptions"
    /\ bridge' = [bridge EXCEPT !.pc = "live", !.init.options = OptionRows(db.options)]
    /\ last' = Event("readOptions", NoBody, NoResponse)
    /\ UNCHANGED <<voteState, syncAlarm, stored, alarmSets, db, inflight, flush>>

\* mutant of GetLiveVoteCounts: the actor's answer is never merged
GetLiveVoteCounts_Fallback(fallbackPoll, result) ==
    [NoData EXCEPT !.totalVotes = fallbackPoll.totalVotes,
                   !.options = fallbackPoll.options]

\* getLiveVoteCounts, lines 112-132: the poll served, given the baseline of D1
\* and the actor's answer to getState (a call that threw is no answer)
GetLiveVoteCounts(fallbackPoll, result) ==
    IF result.success
    THEN [NoData EXCEPT !.totalVotes = result.data.totalVotes,
                        !.options = result.data.options]
    ELSE [NoData EXCEPT !.totalVotes = fallbackPoll.totalVotes,
                        !.options = fallbackPoll.options]

\* getLiveVoteCounts: the getState request reaches the actor, or the call throws
\* and the catch of line 127 logs; handleGetPollById answers 200 with the poll
ReadLive(reachable) ==
    /\ last = Idle
    /\ bridge.pc = "live"
    /\ bridge' = NoBridge
    /\ last' = Event(IF reachable THEN "httpPoll" ELSE "httpPollNoActor", NoBody,
                     Success(GetLiveVoteCounts(bridge.init,
                                               IF reachable THEN StateResponse(voteState)
                                               ELSE NoResponse)))
    /\ UNCHANGED <<voteState, syncAlarm, stored, alarmSets, db, inflight, flush>>

\* the actor seeded with zero counts, under votes, flushes and poll-detail queries
ReadNext ==
    \/ ZeroNext
    \/ ReadPoll
    \/ ReadOptions
    \/ \E reachable \in BOOLEAN : ReadLive(reachable)

ReadSpec == Init /\ [][ReadNext]_vars

----------------------------------------------------------------------------
(* The store-only vote path: handleVote of src/unnamed/part_005 with          *)
(* checkDuplicateVote and castVote of src/src/utils/db.ts.  No actor takes    *)
(* part; inflight holds the requests that have passed the duplicate check.    *)

\* mutant of CastVote: the UNIQUE constraint of the votes table is not there
CastVote_NoUnique(d, body, dbOk) ==
    IF dbOk
    THEN [d EXCEPT !.votes = @ \cup {<<body.ipAddress, body.fingerprint>>},
                   !.options[body.optionId] = @ + 1,
                   !.total = @ + 1]
    ELSE d

\* castVote: DB.batch of the INSERT into votes and the two increments, run by D1
\* as one transaction; the INSERT fails on UNIQUE(poll_id, ip_address,
\* fingerprint) when the voter has a row, and a failed batch changes nothing
CastVote(d, body, dbOk) ==
    IF dbOk /\ <<body.ipAddress, body.fingerprint>> \notin d.votes
    THEN [d EXCEPT !.votes = @ \cup {<<body.ipAddress, body.fingerprint>>},
                   !.options[body.optionId] = @ + 1,
                   !.total = @ + 1]
    ELSE d

\* handleVote, lines 44-64: the option is looked up, then checkDuplicateVote
\* looks for a row of the voter
StoreCheck(body) ==
    /\ last = Idle
    /\ body \notin inflight
    /\ Cardinality(inflight) < MaxInflight
    /\ IF body.optionId \notin DOMAIN db.options
       THEN /\ last' = Event("store404", body, Failure(ErrOptionNotFound))
            /\ inflight' = inflight
       ELSE IF <<body.ipAddress, body.fingerprint>> \in db.votes
       THEN /\ last' = Event("store409", body, Failure(ErrAlreadyVoted))
            /\ inflight' = inflight
       ELSE /\ last' = Event("storeChecked", body, NoResponse)
            /\ inflight' = inflight \cup {body}
    /\ UNCHANGED <<voteState, syncAlarm, stored, alarmSets, db, flush, bridge>>

\* handleVote, lines 66-77: castVote; 201 with the counts, or the batch throws
StoreCast(body, dbOk) ==
    /\ last = Idle
    /\ body \in inflight
    /\ inflight' = inflight \ {body}
    /\ db' = CastVote(db, body, dbOk)
    /\ last' = IF db' # db
               THEN Event("store201", body,
                          Success([NoData EXCEPT
                                     !.optionVoteCount = db'.options[body.optionId],
                                     !.totalVotes = db'.total]))
               ELSE Event("store500", body, Failure("D1 batch failed"))
    /\ UNCHANGED <<voteState, syncAlarm, stored, alarmSets, flush, bridge>>

StoreNext ==
    \/ \E o \in Options \cup {"Z"}, v \in Voters : StoreCheck(VoteBody("", o, v))
    \/ \E body \in VoteBodies, dbOk \in BOOLEAN : StoreCast(body, dbOk)
    \/ Settle

StoreSpec == Init /\ [][StoreNext]_vars

----------------------------------------------------------------------------
(* The claims *)

\* the request of the event just handled
TheKey == VoterKey(last.body.ipAddress, last.body.fingerprint)
TheKey1 == VoterKey(last'.body.ipAddress, last'.body.fingerprint)

\* handleVote returned without reaching the audit INSERT
VoteAnswered == last.op = "vote"
\* handleVote returned success
VoteSucceeded == last.op = "voteReturn" /\ last.resp.success

TotalIsSum == voteState.totalVotes = OptionSum(voteState.options)

\* the snapshot of an init request carries a total equal to the sum of its counts
SnapshotAgrees(body) == body.totalVotes = OptionSum(body.options)

\* this step is an Init adopting its snapshot
Adopts == last'.op = "init" /\ ~voteState.initialized /\ voteState'.initialized

----------------------------------------------------------------------------
(* C1 *)

\* C1 (as claimed): in every reachable state of the actor, totalVotes equals the
\* sum of voteCount over the option map.
C1_TotalIsSumAlways == TotalIsSum

\* C1 (amended): totalVotes equals the sum of the option counts from construction
\* on, and no Vote, GetState, sync, alarm, reload or ignored Init ever breaks the
\* equality; an Init that adopts its snapshot keeps it exactly when the
\* snapshot's totalVotes equals the sum of its vote_counts.
C1_TotalIsSumPreserved ==
    [][/\ (TotalIsSum /\ ~Adopts) => TotalIsSum'
       /\ Adopts => (TotalIsSum' <=> SnapshotAgrees(last'.body))]_vars

\* an accepted vote on an actor seeded with counts that agree with the total
C1_Witness ==
    /\ VoteSucceeded
    /\ TotalIsSum
    /\ voteState.totalVotes > 1

----------------------------------------------------------------------------
(* C2 *)

\* C2: a Vote whose voter key is already in the guard set is answered
\* AlreadyVoted, whichever option it names, and leaves the option counts, the
\* total, the guard set and the durable copy as they were.
C2_DuplicateDeclined ==
    [][(last'.op \in {"vote", "voteAwait"} /\ TheKey1 \in voteState.voters)
         => /\ last'.op = "vote"
            /\ ~last'.resp.success
            /\ last'.resp.error = ErrAlreadyVoted
            /\ last'.resp.data.alreadyVoted
            /\ voteState' = voteState
            /\ stored' = stored]_vars

\* a repeated vote that names another option than the first, and one that names
\* no option of the poll, were declined
C2_Witness ==
    /\ VoteAnswered
    /\ last.resp.data.alreadyVoted
    /\ last.body.optionId = "Z"
    /\ voteState.totalVotes > 0

----------------------------------------------------------------------------
(* C3 *)

\* C3: on an actor seeded with all counts 0, total 0 and an empty guard set, in
\* every state the total, the sum of the option counts and the size of the guard
\* set are one number, the number of distinct voter keys recorded; and a vote
\* answered success has its key among them.
C3_CountsEqualVoters ==
    /\ voteState.totalVotes = OptionSum(voteState.options)
    /\ voteState.totalVotes = Cardinality(voteState.voters)
    /\ voteState.voters \subseteq VoterKeys
    /\ VoteSucceeded => TheKey \in voteState.voters

\* every voter key of the model has voted, after a declined repeat
C3_Witness ==
    /\ VoteSucceeded
    /\ voteState.voters = VoterKeys
    /\ voteState.totalVotes = Cardinality(VoterKeys)
    /\ \A o \in Options : voteState.options[o].voteCount > 0

----------------------------------------------------------------------------
(* C4 *)

----------------------------------------------------------------------------
(* C5 *)

\* what a reload of the actor would find
Reloaded == Loaded(stored)

\* C5: when a Vote answers success, and already while it waits on the audit
\* INSERT before answering, the durable copy holds that vote: the voter key is in
\* the stored guard set, and the save that recorded it stored the option count and
\* the total one above their values before the vote; nothing stored is lost later,
\* so a reload finds the vote.
C5_WriteAhead ==
    /\ [](VoteSucceeded => /\ TheKey \in Reloaded.voters
                           /\ Reloaded.options[last.body.optionId].voteCount > 0
                           /\ Reloaded.totalVotes > 0)
    /\ [](\A b \in inflight : VoterKey(b.ipAddress, b.fingerprint) \in stored.voters)
    /\ [][last'.op = "voteAwait"
            => /\ stored' = Persisted(voteState')
               /\ TheKey1 \in stored'.voters
               /\ stored'.options[last'.body.optionId].voteCount
                    = voteState.options[last'.body.optionId].voteCount + 1
               /\ stored'.totalVotes = voteState.totalVotes + 1]_vars
    /\ [][stored.present
            => /\ stored'.present
               /\ stored.voters \subseteq stored'.voters
               /\ stored'.totalVotes >= stored.totalVotes
               /\ \A o \in DOMAIN stored.options :
                    /\ o \in DOMAIN stored'.options
                    /\ stored'.options[o].voteCount >= stored.options[o].voteCount]_vars

\* a vote answered success while the memory is ahead of the durable copy
C5_Witness ==
    /\ VoteSucceeded
    /\ TheKey \in stored.voters
    /\ stored # Persisted(voteState)

----------------------------------------------------------------------------
(* C6 *)

\* C6 (as claimed): when the bridge's Init call reaches an uninitialized actor
\* and the write to private storage does not fail, the actor is initialized with
\* the options, the total and the voter keys the bridge read from D1 (so that
\* the Vote that follows is accepted).
C6_BridgeSeedsActor ==
    [][(bridge.pc = "init" /\ bridge'.pc = "vote"
          /\ ~voteState.initialized /\ last'.resp.error # ErrStorage)
         => /\ voteState'.initialized
            /\ voteState'.options = bridge.init.options
            /\ voteState'.totalVotes = bridge.init.totalVotes
            /\ voteState'.voters = bridge.init.existingVoters]_vars

----------------------------------------------------------------------------
(* C7 *)

\* C7 (as claimed): a Vote that fails on the write to private storage leaves the
\* option counts, the total and the guard set in memory as they were, so that a
\* retry by the same voter key is not answered AlreadyVoted.
C7_FailedWriteKeepsNothing ==
    [][(last'.op = "vote" /\ last'.resp.error = ErrStorage)
         => /\ voteState'.options = voteState.options
            /\ voteState'.totalVotes = voteState.totalVotes
            /\ voteState'.voters = voteState.voters]_vars

----------------------------------------------------------------------------
(* C8 *)

\* C8 (as claimed): when the flush that an alarm started fails on its write to
\* D1, a flush is pending again once it has returned.
C8_FailedFlushRearms == (last.op = "alarmFailed") => (alarmSets = 1)

----------------------------------------------------------------------------
(* C9 *)

\* D1 holds the total and the option counts of the actor
StoreMatchesActor ==
    /\ db.total = voteState.totalVotes
    /\ \A o \in DOMAIN voteState.options :
         o \in DOMAIN db.options /\ db.options[o] = voteState.options[o].voteCount

\* C9: when a flush ends with its writes to D1 done and no vote recorded since it
\* began (the total it wrote is still the actor's), D1 holds the actor's total and
\* the count of every option; and no step of a Vote changes the counts of D1.
C9_FlushReconciles ==
    [][/\ (last'.op = "alarmDone" /\ db.total = voteState.totalVotes)
            => StoreMatchesActor'
       /\ last'.op \in {"vote", "voteAwait", "voteReturn"}
            => (db'.total = db.total /\ db'.options = db.options)]_vars

\* the alarm's flush has brought two votes to D1
C9_Witness ==
    /\ last.op = "alarmDone"
    /\ StoreMatchesActor
    /\ db.total > 1
    /\ db.options["B"] > 0

----------------------------------------------------------------------------
(* C10 *)

\* C10 (as claimed): between two firings of the alarm, setAlarm is called at most
\* once, however many votes are accepted, a reload of the actor included.
C10_OneAlarmPerFlush == alarmSets <= 1

----------------------------------------------------------------------------
(* C11 *)

\* C11: GetState on an actor that is not initialized fails with 'Not initialized';
\* on an initialized actor it answers success with the current count of every
\* option and the current total; either way it changes nothing.
C11_GetStateReturnsCounts ==
    [][last'.op = "getState"
         => /\ ~voteState.initialized
                 => (~last'.resp.success /\ last'.resp.error = ErrGetStateNotInitialized)
            /\ voteState.initialized
                 => /\ last'.resp.success
                    /\ last'.resp.data.totalVotes = voteState.totalVotes
                    /\ DOMAIN last'.resp.data.options = DOMAIN voteState.options
                    /\ \A o \in DOMAIN voteState.options :
                         last'.resp.data.options[o].voteCount = voteState.options[o].voteCount
            /\ voteState' = voteState
            /\ stored' = stored]_vars

\* GetState after Init({A:1, B:0}, total 1) and one accepted vote for A answered
\* {A:2, B:0}, total 2
C11_Witness ==
    /\ last.op = "getState"
    /\ last.resp.success
    /\ last.resp.data.totalVotes = 2
    /\ last.resp.data.options["A"].voteCount = 2
    /\ last.resp.data.options["B"].voteCount = 0
    /\ Cardinality(voteState.voters) = 2

----------------------------------------------------------------------------
(* C12 *)

\* C12: a poll-detail query always answers success; it serves the actor's total
\* and option counts when the actor answers getState as initialized, and the
\* total and counts it read from D1, as read, when the actor is not initialized
\* or the call to it throws.
C12_ReadPathReconciles ==
    [][/\ last'.op = "readPoll" => bridge'.init.totalVotes = db.total
       /\ last'.op = "readOptions" => /\ bridge'.init.options = OptionRows(db.options)
                                      /\ bridge'.init.totalVotes = bridge.init.totalVotes
       /\ last'.op \in {"httpPoll", "httpPollNoActor"}
            => /\ last'.resp.success
               /\ IF last'.op = "httpPoll" /\ voteState.initialized
                  THEN /\ last'.resp.data.totalVotes = voteState.totalVotes
                       /\ last'.resp.data.options = voteState.options
                  ELSE /\ last'.resp.data.totalVotes = bridge.init.totalVotes
                       /\ last'.resp.data.options = bridge.init.options]_vars

\* a query served the live counts of two votes while D1 still held none
C12_Witness ==
    /\ last.op = "httpPoll"
    /\ last.resp.data.totalVotes = 2
    /\ last.resp.data.options["A"].voteCount = 1
    /\ last.resp.data.options["B"].voteCount = 1
    /\ db.total = 0

----------------------------------------------------------------------------
(* C13 *)

\* C13: when the audit INSERT of an accepted Vote has resolved or thrown, the Vote
\* answers success with the option's count and the total, and the step changes
\* neither the memory nor the durable copy: the voter key and the incremented
\* count and total are in both.
C13_AuditBestEffort ==
    [][last'.op = "voteReturn"
         => /\ last'.resp.success
            /\ voteState' = voteState
            /\ stored' = stored
            /\ TheKey1 \in voteState'.voters
            /\ TheKey1 \in stored'.voters
            /\ voteState'.options[last'.body.optionId].voteCount > 0
            /\ stored'.options[last'.body.optionId].voteCount > 0
            /\ voteState'.totalVotes > 0
            /\ stored'.totalVotes > 0]_vars

\* a vote answered success although its audit INSERT failed: no row of the voter
C13_Witness ==
    /\ VoteSucceeded
    /\ <<last.body.ipAddress, last.body.fingerprint>> \notin db.votes
    /\ TheKey \in voteState.voters
    /\ TheKey \in stored.voters
    /\ last.resp.data.totalVotes = voteState.totalVotes

----------------------------------------------------------------------------
(* C14 *)

\* C14 (as claimed): an AlreadyVoted answer carries the actor's current counts:
\* the total, the option map or the count of the option named.
C14_AlreadyVotedCarriesCounts ==
    (VoteAnswered /\ last.resp.data.alreadyVoted)
        => \/ last.resp.data.totalVotes = voteState.totalVotes
           \/ last.resp.data.options = voteState.options
           \/ /\ last.body.optionId \in DOMAIN voteState.options
              /\ last.resp.data.optionVoteCount
                   = voteState.options[last.body.optionId].voteCount

----------------------------------------------------------------------------
(* C15 *)

\* C15 (as claimed): a Vote with its required fields that finds the actor not
\* initialized fails with 'Poll ID not set - DO not initialized', with or without
\* a pollId in the request, and records no vote.
C15_VoteNeedsInitialized ==
    [][(/\ last'.op \in {"vote", "voteAwait"}
        /\ ~voteState.initialized
        /\ last'.body.optionId # "" /\ last'.body.ipAddress # ""
        /\ last'.body.fingerprint # "")
         => /\ last'.op = "vote"
            /\ ~last'.resp.success
            /\ last'.resp.error = ErrNotInitialized
            /\ voteState'.voters = voteState.voters
            /\ voteState'.totalVotes = voteState.totalVotes
            /\ voteState'.options = voteState.options]_vars

----------------------------------------------------------------------------
(* C16 *)

\* C16 (as claimed): a Vote answered with missing fields, not initialized, option
\* not found or already voted leaves the actor's state as it was, in memory and
\* durable, the flush flag and the alarm included.
C16_FailedVoteChangesNothing ==
    [][(/\ last'.op = "vote"
        /\ last'.resp.error \in {ErrMissingFields, ErrNotInitialized,
                                  ErrOptionNotFound, ErrAlreadyVoted})
         => /\ voteState' = voteState
            /\ stored' = stored
            /\ syncAlarm' = syncAlarm
            /\ alarmSets' = alarmSets]_vars

----------------------------------------------------------------------------
(* C17 *)

\* C17 (as claimed): a reload of the actor between operations finds the pollId,
\* the initialized flag, the option counts, the total and the guard set that the
\* memory held before the eviction.
C17_ReloadKeepsState ==
    [][last'.op = "reload"
         => /\ voteState'.pollId = voteState.pollId
            /\ voteState'.initialized = voteState.initialized
            /\ voteState'.options = voteState.options
            /\ voteState'.totalVotes = voteState.totalVotes
            /\ voteState'.voters = voteState.voters]_vars

----------------------------------------------------------------------------
(* C19 *)

\* C19 (as claimed): an Init that finds the actor not initialized and carries a
\* pollId answers success, adopts exactly its snapshot, marks the actor
\* initialized and persists it; without a pollId it fails and leaves the state
\* as it was; there is no other failure.
C19_InitAdoptsSnapshot ==
    [][(last'.op = "init" /\ ~voteState.initialized)
         => IF last'.body.pollId # ""
            THEN /\ last'.resp.success
                 /\ voteState'.initialized
                 /\ voteState'.pollId = last'.body.pollId
                 /\ voteState'.options = last'.body.options
                 /\ voteState'.totalVotes = last'.body.totalVotes
                 /\ voteState'.voters = last'.body.existingVoters
                 /\ stored' = Persisted(voteState')
            ELSE /\ ~last'.resp.success
                 /\ voteState' = voteState
                 /\ stored' = stored]_vars

----------------------------------------------------------------------------
(* C20 *)

\* C20: an accepted Vote raises the count of the option it names by one and the
\* total by one, adds its voter key, which was not there, to the guard set, and
\* leaves the other options' counts, every option's text, the pollId and the
\* initialized flag as they were.
C20_AcceptedVoteFrame ==
    [][last'.op = "voteAwait"
         => /\ last'.body.optionId \in DOMAIN voteState.options
            /\ DOMAIN voteState'.options = DOMAIN voteState.options
            /\ \A o \in DOMAIN voteState.options :
                 /\ voteState'.options[o].text = voteState.options[o].text
                 /\ voteState'.options[o].voteCount
                      = voteState.options[o].voteCount
                          + (IF o = last'.body.optionId THEN 1 ELSE 0)
            /\ voteState'.totalVotes = voteState.totalVotes + 1
            /\ TheKey1 \notin voteState.voters
            /\ voteState'.voters = voteState.voters \cup {TheKey1}
            /\ voteState'.pollId = voteState.pollId
            /\ voteState'.initialized = voteState.initialized]_vars

\* a vote for B was accepted after one for A
C20_Witness ==
    /\ last.op = "voteAwait"
    /\ last.body.optionId = "B"
    /\ voteState.options["A"].voteCount = 1
    /\ voteState.options["B"].voteCount = 1
    /\ voteState.totalVotes = 2
    /\ Cardinality(voteState.voters) = 2

----------------------------------------------------------------------------
(* C18 *)

\* C18 (as claimed): when the bridge's Init call has reseeded an actor that lost
\* its private storage, every voter key with a row in the audit log of D1 is in
\* the guard set (so that a further Vote by that key is answered AlreadyVoted).
C18_ReseedRestoresGuard ==
    [][(bridge.pc = "init" /\ bridge'.pc = "vote" /\ last'.resp.error # ErrStorage)
         => \A r \in db.votes : VoterKey(r[1], r[2]) \in voteState'.voters]_vars

----------------------------------------------------------------------------
(* C21 *)

\* a vote request with its required fields reached an initialized actor and
\* names an option that is not in the map
AbsentOptionVote ==
    /\ last'.op \in {"vote", "voteAwait"}
    /\ voteState.initialized
    /\ last'.body.optionId # "" /\ last'.body.ipAddress # ""
    /\ last'.body.fingerprint # ""
    /\ last'.body.optionId \notin DOMAIN voteState.options

\* the step changed nothing of the actor, in memory or durable
ActorUnchanged ==
    /\ voteState' = voteState
    /\ stored' = stored
    /\ syncAlarm' = syncAlarm
    /\ alarmSets' = alarmSets

\* C21 (as claimed): on an initialized actor, a Vote whose optionId is not in the
\* option map fails with 'Option not found' and changes nothing, whether or not
\* its voter key is in the guard set.
C21_AbsentOptionNotFound ==
    [][AbsentOptionVote
         => /\ last'.op = "vote"
            /\ last'.resp.error = ErrOptionNotFound
            /\ ActorUnchanged]_vars

\* C21 (amended): on an initialized actor, a Vote whose optionId is not in the
\* option map changes nothing and fails: with 'Option not found' when its voter
\* key is not in the guard set, and as AlreadyVoted when it is (the guard set is
\* checked before the option map).
C21_AbsentOptionDeclined ==
    [][AbsentOptionVote
         => /\ last'.op = "vote"
            /\ ~last'.resp.success
            /\ last'.resp.error = IF TheKey1 \in voteState.voters
                                  THEN ErrAlreadyVoted ELSE ErrOptionNotFound
            /\ ActorUnchanged]_vars

\* a vote by a new voter key for an option the initialized actor does not hold
\* that holds votes was answered 'Option not found'
C21_Witness ==
    /\ VoteAnswered
    /\ last.resp.error = ErrOptionNotFound
    /\ voteState.initialized
    /\ TheKey \notin voteState.voters
    /\ voteState.totalVotes > 0

----------------------------------------------------------------------------
(* C22 *)

\* C22 (as claimed): the in-memory guard set only grows, whatever happens: Init,
\* Vote, GetState, flush, a failed storage write, a reload.
C22_GuardOnlyGrows ==
    [][voteState.voters \subseteq voteState'.voters]_vars

----------------------------------------------------------------------------
(* C23 *)

\* the sum of options.vote_count over the poll's rows of D1
DbOptionSum == OptionSum(OptionRows(db.options))

\* C23 (as claimed): on an actor whose total is the sum of its counts, whenever
\* no flush is in progress the polls.total_votes of D1 equals the sum of the
\* options' vote_count: no flush attempt leaves the total written without the
\* option rows.
C23_FlushIsAtomic ==
    (flush.pc = "idle") => (db.total = DbOptionSum)

----------------------------------------------------------------------------
(* C24 *)

\* C24 (as claimed): the total and the option counts that one flush writes come
\* from one state of the actor: on an actor whose total is the sum of its counts,
\* the total bound to the UPDATE of polls is the sum of the counts bound to the
\* batch, even when a Vote arrives while the flush waits on D1.
C24_FlushReadsOneState ==
    (flush.pc = "batch") => (flush.total = OptionSum(flush.options))

----------------------------------------------------------------------------
(* C25 *)

\* the events of a flush: alarm() or the 'sync' action entering syncToD1, and
\* the steps of syncToD1
FlushStarts == {"alarmBegin", "alarmSkipped", "syncBegin", "syncSkipped"}
FlushSteps == {"alarmTotal", "alarmDone", "alarmFailed",
               "syncTotal", "syncDone", "syncFailed"}

\* the values the flush in progress is about to write are the actor's current ones
FlushBoundToActor ==
    \/ flush.pc = "total" /\ flush.total = voteState.totalVotes
    \/ flush.pc = "batch" /\ flush.options = voteState.options

\* C25: a flush of an actor that is not initialized skips syncToD1 and writes
\* nothing to D1; a step of a flush that finds D1 equal to the actor's total and
\* counts, the values it is about to write being the actor's, leaves D1 as it
\* is; and neither changes the actor's state, in memory or durable.
C25_CleanFlushIsNoOp ==
    [][/\ (last'.op \in FlushStarts /\ ~voteState.initialized)
            => /\ last'.op \in {"alarmSkipped", "syncSkipped"}
               /\ flush'.pc = "idle"
               /\ db' = db
               /\ voteState' = voteState
               /\ stored' = stored
       /\ (last'.op \in FlushSteps /\ StoreMatchesActor /\ FlushBoundToActor)
            => /\ db' = db
               /\ voteState' = voteState
               /\ stored' = stored]_vars

\* a flush has written the total and is about to write the counts, and D1 holds
\* them all already, written by an earlier flush
C25_Witness ==
    /\ last.op \in {"alarmTotal", "syncTotal"}
    /\ flush.pc = "batch"
    /\ flush.options = voteState.options
    /\ StoreMatchesActor
    /\ db.total > 0
    /\ db.options["A"] > 0

----------------------------------------------------------------------------
(* C26 *)

\* C26: no step of a flush, failed or not, and no step of the 'sync' action
\* changes the actor's voteState (pollId, option counts, total, guard set,
\* initialized flag) or its durable copy; the flush-scheduled flag and the
\* pending alarm change only when alarm() starts, which clears them.
C26_FlushFrame ==
    [][(last'.op \in FlushStarts \cup FlushSteps)
         => /\ voteState' = voteState
            /\ stored' = stored
            /\ IF last'.op \in {"alarmBegin", "alarmSkipped"}
               THEN ~syncAlarm' /\ alarmSets' = 0
               ELSE syncAlarm' = syncAlarm /\ alarmSets' = alarmSets]_vars

\* the flush of an alarm failed on an actor that holds a persisted vote
C26_Witness ==
    /\ last.op = "alarmFailed"
    /\ voteState.totalVotes > 0
    /\ voteState.voters # {}
    /\ stored = Persisted(voteState)

----------------------------------------------------------------------------
(* C27 *)

\* C27 (as claimed): whichever caller's Init arrives first seeds the actor: after
\* any Init the actor is initialized, an Init that finds it initialized changes
\* nothing (no count rolled back, no voter key dropped), and an Init that finds
\* it uninitialized leaves it holding that Init's snapshot.
C27_SeedingRacesHarmless ==
    [][last'.op = "init"
         => /\ voteState'.initialized
            /\ IF voteState.initialized
               THEN voteState' = voteState /\ stored' = stored
               ELSE /\ voteState'.options = last'.body.options
                    /\ voteState'.totalVotes = last'.body.totalVotes
                    /\ voteState'.voters = last'.body.existingVoters]_vars

----------------------------------------------------------------------------
(* C28 *)

\* C28 (as claimed): once an Init has answered success the actor is initialized
\* for good: it is initialized in memory and in private storage, storage once
\* initialized stays so, and only a reload, which restores what storage holds,
\* may change the flag in memory.
C28_InitializedForGood ==
    /\ []((last.op = "init" /\ last.resp.success)
            => (voteState.initialized /\ Reloaded.initialized))
    /\ [][stored.initialized => stored'.initialized]_vars
    /\ [][(voteState.initialized /\ last'.op # "reload")
            => voteState'.initialized]_vars
    /\ [][last'.op = "reload" => voteState'.initialized = stored.initialized]_vars

----------------------------------------------------------------------------
(* C29 *)

\* C29 (as claimed): the persisted votes never stay out of D1 with nothing left
\* to bring them there: whenever no alarm is pending and no flush is in progress,
\* D1 holds the total and the option counts of the actor's durable state.
C29_NothingPendingMeansReconciled ==
    (alarmSets = 0 /\ flush.pc = "idle" /\ stored.present)
        => /\ db.total = stored.totalVotes
           /\ \A o \in DOMAIN stored.options :
                o \in DOMAIN db.options /\ db.options[o] = stored.options[o].voteCount

----------------------------------------------------------------------------
(* C30 *)

\* C30: what a Vote is answered and what it leaves in the actor are decided by
\* the request and the actor's state alone: it is recorded exactly when its
\* fields are present, a pollId is known, its voter key is not in the guard set
\* and its option is in the map, and declined as AlreadyVoted exactly when its
\* fields are present, a pollId is known and its voter key is in the guard set,
\* whatever rows the votes table of D1 holds; the step does not touch D1.
C30_GuardIsSoleAuthority ==
    [][last'.op \in {"vote", "voteAwait"}
         => LET b == last'.body
                fields == b.optionId # "" /\ b.ipAddress # "" /\ b.fingerprint # ""
                pid == voteState.pollId # "" \/ b.pollId # ""
                dup == TheKey1 \in voteState.voters
                known == b.optionId \in DOMAIN voteState.options
                recorded == last'.op = "voteAwait" \/ last'.resp.error = ErrStorage
            IN /\ recorded <=> (fields /\ pid /\ ~dup /\ known)
               /\ (last'.resp.error = ErrAlreadyVoted) <=> (fields /\ pid /\ dup)
               /\ voteState'.voters
                    = IF recorded THEN voteState.voters \cup {TheKey1}
                      ELSE voteState.voters
               /\ voteState'.totalVotes
                    = voteState.totalVotes + (IF recorded THEN 1 ELSE 0)
               /\ db' = db]_vars

\* a vote was accepted although the votes table of D1 holds a row of its voter
C30_Witness ==
    /\ last.op = "voteAwait"
    /\ <<last.body.ipAddress, last.body.fingerprint>> \in db.votes
    /\ TheKey \in voteState.voters

----------------------------------------------------------------------------
(* C31 *)

\* C31 (as claimed): the success answer of a Vote carries the updated counts of
\* that vote, the option's count and the total as the vote left them when it
\* was recorded, even when other votes were recorded while it waited on the
\* audit INSERT.
C31_AnswerCarriesOwnCounts ==
    [][(bridge.pc = "await" /\ bridge'.pc = "reply")
         => /\ bridge'.result.success
            /\ bridge'.result.data.optionVoteCount = bridge.result.data.optionVoteCount
            /\ bridge'.result.data.totalVotes = bridge.result.data.totalVotes]_vars

----------------------------------------------------------------------------
(* C32 *)

\* C32: GetState and every step of a poll-detail query change nothing: not the
\* actor's state in memory or in private storage, not the flush flag, the alarm
\* or a flush in progress, not D1.
C32_ReadsArePure ==
    [][last'.op \in {"getState", "readPoll", "readOptions", "httpPoll", "httpPollNoActor"}
         => /\ voteState' = voteState
            /\ stored' = stored
            /\ syncAlarm' = syncAlarm
            /\ alarmSets' = alarmSets
            /\ flush' = flush
            /\ inflight' = inflight
            /\ db' = db]_vars

\* a poll-detail query was answered from the actor while votes were still to be
\* flushed
C32_Witness ==
    /\ last.op = "httpPoll"
    /\ last.resp.data.totalVotes > 0
    /\ alarmSets > 0
    /\ db.total = 0
    /\ stored = Persisted(voteState)

----------------------------------------------------------------------------
(* C34 *)

\* C34: an actor whose initialized flag is clear holds an empty option map,
\* total 0 and an empty guard set, and no Vote is recorded in such a state.
C34_UninitializedHoldsNothing ==
    /\ [](~voteState.initialized
            => /\ DOMAIN voteState.options = {}
               /\ voteState.totalVotes = 0
               /\ voteState.voters = {})
    /\ [][(last'.op \in {"vote", "voteAwait"} /\ ~voteState.initialized)
            => /\ last'.op = "vote"
               /\ ~last'.resp.success
               /\ voteState'.totalVotes = 0
               /\ voteState'.voters = {}
               /\ stored' = stored]_vars

\* a vote that carries a pollId reached an actor that is not initialized, and
\* was not recorded
C34_Witness ==
    /\ VoteAnswered
    /\ ~voteState.initialized
    /\ voteState.pollId # ""
    /\ last.resp.error = ErrOptionNotFound
    /\ voteState.voters = {}

----------------------------------------------------------------------------
(* C36 *)

\* C36 (as claimed): the count of every option and the total, as GetState shows
\* them, never decrease, whatever happens: Init, Vote, flush, a failed storage
\* write, a reload.
C36_CountsNeverDecrease ==
    [][/\ voteState'.totalVotes >= voteState.totalVotes
       /\ \A o \in DOMAIN voteState.options :
            /\ o \in DOMAIN voteState'.options
            /\ voteState'.options[o].voteCount >= voteState.options[o].voteCount]_vars

----------------------------------------------------------------------------
(* C38 *)

----------------------------------------------------------------------------
(* C40 *)

\* C40: whenever the flag syncAlarm is set, an alarm is pending in the actor's
\* storage.
C40_FlagMeansAlarm == syncAlarm => (alarmSets > 0)

\* a vote recorded while the flush of the previous alarm is in progress has set
\* the alarm and the flag again
C40_Witness ==
    /\ last.op = "voteAwait"
    /\ flush.pc # "idle"
    /\ syncAlarm
    /\ alarmSets = 1

----------------------------------------------------------------------------
(* C33 *)

\* C33: in the store-only vote path, whatever the interleaving of requests,
\* polls.total_votes, the sum of options.vote_count and the number of rows of
\* the votes table are one number, a request answered 201 has its row, and a
\* step of castVote adds at most one row and none for a voter who has one.
C33_StoreVoteIsAtomic ==
    /\ [](/\ db.total = DbOptionSum
          /\ db.total = Cardinality(db.votes)
          /\ last.op = "store201"
               => <<last.body.ipAddress, last.body.fingerprint>> \in db.votes)
    /\ [][last'.op \in {"store201", "store500"}
            => /\ Cardinality(db'.votes) <= Cardinality(db.votes) + 1
               /\ <<last'.body.ipAddress, last'.body.fingerprint>> \in db.votes
                    => db' = db]_vars

\* of two requests of one voter that both passed the duplicate check, the first
\* was recorded and the second's batch has failed
C33_Witness ==
    /\ last.op = "store500"
    /\ <<last.body.ipAddress, last.body.fingerprint>> \in db.votes
    /\ db.total = 1
    /\ db.options[last.body.optionId] = 0

----------------------------------------------------------------------------
(* C35 *)

\* C35: between operations, when the actor's counts are the persisted ones, no
\* vote awaits its audit insert, and the actor's total or an option count
\* differs from that of D1, a flush alarm is pending or a flush is executing.
C35_DifferenceHasPendingFlush ==
    (/\ voteState.initialized
     /\ stored = Persisted(voteState)
     /\ inflight = {}
     /\ ~StoreMatchesActor)
        => (alarmSets > 0 \/ flush.pc # "idle")

----------------------------------------------------------------------------
(* C37 *)

\* C37: the snapshot that initializeVoteEngine has read from D1 for an actor
\* whose private storage was lost carries a totalVotes equal to the number of
\* its voter keys.
C37_SeedTotalIsSeedVoters ==
    (bridge.pc = "init" /\ ~stored.present)
        => bridge.init.totalVotes = Cardinality(bridge.init.existingVoters)

----------------------------------------------------------------------------
(* C39 *)

\* C39: a voter key in the guard set is the key of one (address, fingerprint)
\* pair only, so it declines the requests of one voter and of no other.
C39_KeyBlocksOneVoter ==
    \A v \in Voters, w \in Voters :
        (VoterKey(v[1], v[2]) \in voteState.voters
            /\ VoterKey(w[1], w[2]) = VoterKey(v[1], v[2]))
        => w = v

====
